---------------------------- MODULE Spec2Model ----------------------------
(***************************************************************************)
(* A model of src/Boids.py: the flocking simulation (Boid.flock,           *)
(* Boid.update, Boid.handle_boundaries), the parameter sliders             *)
(* (Slider.handle_event) and the event / frame loop of main().             *)
(*                                                                         *)
(* Numbers.  The program computes in binary floating point; the model      *)
(* computes in fixed point on integers:                                    *)
(*   - a parameter value (a slider value, an entry of the params dict) is  *)
(*     an integer count of 1/PU of its unit (PU = 3000: the coarsest grid  *)
(*     on which every default, every range end and the value of every      *)
(*     slider pixel is an integer);                                        *)
(*   - a position, velocity or force component is an integer count of 1/Q  *)
(*     pixel (Q = 100);                                                    *)
(*   - a division rounds toward zero.                                      *)
(* Comparisons of lengths are done on the squares, which is exact.         *)
(***************************************************************************)
EXTENDS Integers, Sequences, FiniteSets, TLC

VARIABLES
    params,         \* the module-level dict `params` (lines 30-38), read by every Boid method
    main_params,    \* the dict bound to the local name `params` of main() (line 298)
    main_aliased,   \* TRUE while main's local `params` is the module-level dict itself
    sliders,        \* main's list `sliders`: seven records value / handle_x / dragging
    boids,          \* main's list `boids`
    show_visuals,   \* main's flag
    pc,             \* where main() is: "events", "flock", "update", "boundaries", "draw"
    idx,            \* 1-based position of the `for boid in boids` loop (line 389)
    totals,         \* the counters of the most recent Boid.flock call (lines 102-104, 120-128)
    flocked,        \* the boids whose flock() has run in the current frame
    updated,        \* the boids whose update() has run in the current frame
    frame0,         \* the list `boids` as it was when the current frame's loop began
    spawned,        \* number of spawn events handled since the last clear-all event (or the start)
    nevents,        \* number of events handled so far
    nframes         \* number of frames completed so far

vars == <<params, main_params, main_aliased, sliders, boids, show_visuals,
          pc, idx, totals, flocked, updated, frame0, spawned, nevents, nframes>>

---------------------------------------------------------------------------
(* Bounds of the model. *)

MaxBoids == 2

MaxEvents == 4

MaxFrames == 2

---------------------------------------------------------------------------
(* Units and integer helpers. *)

PU == 3 * 1000      \* parameter values are counted in 1/PU
Q == 10 * 10        \* lengths are counted in 1/Q pixel
NQ == Q * Q         \* components of a unit vector are counted in 1/NQ

Abs(a) == IF a < 0 THEN -a ELSE a

Max2(a, b) == IF a > b THEN a ELSE b

Min2(a, b) == IF a < b THEN a ELSE b

\* a / b rounded toward zero, b > 0
RDiv(a, b) == IF a < 0 THEN -((-a) \div b) ELSE a \div b

RECURSIVE ISqrtB(_, _, _)
ISqrtB(n, lo, hi) ==
    IF lo = hi THEN lo
    ELSE LET mid == (lo + hi + 1) \div 2
         IN  IF mid * mid <= n THEN ISqrtB(n, mid, hi) ELSE ISqrtB(n, lo, mid - 1)

\* floor of the square root, 0 <= n < 2^31
ISqrt(n) == ISqrtB(n, 0, 46340)

\* ceiling of the square root
ISqrtUp(n) == LET r == ISqrt(n) IN IF r * r = n THEN r ELSE r + 1

(* 2-vectors are pairs <<x, y>>. *)
VAdd(u, v) == <<u[1] + v[1], u[2] + v[2]>>

VSub(u, v) == <<u[1] - v[1], u[2] - v[2]>>

VZero == <<0, 0>>

\* v * n / d, componentwise
VScale(v, n, d) == <<RDiv(v[1] * n, d), RDiv(v[2] * n, d)>>

SqLen(v) == v[1] * v[1] + v[2] * v[2]

\* np.linalg.norm(v) < r for r >= 0, decided on the squares; the two first conjuncts
\* keep the squares within the integer range and follow from the third
NormLess(v, r) == /\ Abs(v[1]) < r
                  /\ Abs(v[2]) < r
                  /\ SqLen(v) < r * r

\* np.linalg.norm(v) > r for r >= 0, likewise
NormMore(v, r) == \/ Abs(v[1]) > r
                  \/ Abs(v[2]) > r
                  \/ SqLen(v) > r * r

\* v rescaled, keeping its direction, so that its larger component has between 15000
\* and 30000 in size: the square of its length then fits the integers and its root
\* is known to 1 part in 15000.  v is not the zero vector
Rescaled(v) ==
    LET m == Max2(Abs(v[1]), Abs(v[2]))
    IN  IF m > 30000
        THEN <<RDiv(v[1], m \div 30000 + 1), RDiv(v[2], m \div 30000 + 1)>>
        ELSE <<v[1] * (30000 \div m), v[2] * (30000 \div m)>>

---------------------------------------------------------------------------
(* Screen, parameters and their ranges. *)

WIDTH == 1200

HEIGHT == 800

ParamNames == <<"max_speed", "perception_radius", "separation_weight", "alignment_weight",
                "cohesion_weight", "edge_force", "separation_radius">>

\* the initial value of the module-level dict: 4.0, 32, 3.0, 2.3, 1.73, 7.25, 30
DefaultParams ==
    [max_speed         |-> 4 * PU,
     perception_radius |-> 32 * PU,
     separation_weight |-> 3 * PU,
     alignment_weight  |-> (23 * PU) \div 10,
     cohesion_weight   |-> (173 * PU) \div 100,
     edge_force        |-> (725 * PU) \div 100,
     separation_radius |-> 30 * PU]

\* the dict literal that key R binds to main's local name: the same seven numbers
ResetParams ==
    [max_speed         |-> 4 * PU,
     perception_radius |-> 32 * PU,
     separation_weight |-> 3 * PU,
     alignment_weight  |-> (23 * PU) \div 10,
     cohesion_weight   |-> (173 * PU) \div 100,
     edge_force        |-> (725 * PU) \div 100,
     separation_radius |-> 30 * PU]

\* (0.5, 10.0), (10, 200), (0.1, 5.0), (0.1, 5.0), (0.1, 5.0), (0.1, 15.0), (10, 100)
param_ranges ==
    [max_speed         |-> <<PU \div 2, 10 * PU>>,
     perception_radius |-> <<10 * PU, 200 * PU>>,
     separation_weight |-> <<PU \div 10, 5 * PU>>,
     alignment_weight  |-> <<PU \div 10, 5 * PU>>,
     cohesion_weight   |-> <<PU \div 10, 5 * PU>>,
     edge_force        |-> <<PU \div 10, 15 * PU>>,
     separation_radius |-> <<10 * PU, 100 * PU>>]

\* a value of the module-level dict as the simulation's arithmetic uses it, in 1/Q
Param(name) == (params[name] * Q) \div PU

---------------------------------------------------------------------------
(* Sliders.  Slider i is built at lines 304-317 with rect (20, 40 + 60 i, 300, 15) *)
(* and the range of ParamNames[i].  rect, min_val, max_val and handle_radius never *)
(* change, so they are definitions; value, handle_x and dragging are the state.    *)
(* The field handle_x of slider i is counted in 1/SliderStep(i) pixel, the unit in *)
(* which the quotient of line 234 is an integer.                                   *)

NumSliders == Len(ParamNames)

slider_x == 20

slider_width == 300

slider_height == 15

handle_radius == 10

slider_y(i) == 40 + 60 * i

min_val(i) == param_ranges[ParamNames[i]][1]

max_val(i) == param_ranges[ParamNames[i]][2]

\* the change of value per pixel of handle travel: (max_val - min_val) / rect.width
SliderStep(i) == (max_val(i) - min_val(i)) \div slider_width

\* rect.x + (value - min_val) / (max_val - min_val) * rect.width, in 1/SliderStep(i) pixel
HandleXOf(i, value) == slider_x * SliderStep(i) + (value - min_val(i))

\* Slider.__init__
NewSlider(i, initial_val) ==
    [value |-> initial_val, handle_x |-> HandleXOf(i, initial_val), dragging |-> FALSE]

\* (mouse_pos[0] - handle_pos[0]) ** 2 + (mouse_pos[1] - handle_pos[1]) ** 2
\*     <= handle_radius ** 2, with handle_pos = (handle_x, rect.y + rect.height // 2);
\* both sides are multiplied by SliderStep(i) ** 2, and the two first conjuncts keep
\* the squares within the integer range and follow from the third
OnHandle(i, s, mouse) ==
    LET st == SliderStep(i)
        dx == mouse[1] * st - s.handle_x
        dy == (mouse[2] - (slider_y(i) + slider_height \div 2)) * st
        r  == handle_radius * st
    IN  /\ Abs(dx) <= r
        /\ Abs(dy) <= r
        /\ dx * dx + dy * dy <= r * r

\* line 267 left out: the mouse x taken as it is
ClampMouseX_None(mouse_x) == mouse_x

\* the mouse x of line 267: max(rect.x, min(mouse_x, rect.x + rect.width))
ClampMouseX(mouse_x) == Max2(slider_x, Min2(mouse_x, slider_x + slider_width))

\* line 270: min_val + (mouse_x - rect.x) / rect.width * (max_val - min_val)
ValueAt(i, mouse_x) ==
    min_val(i) + ((mouse_x - slider_x) * (max_val(i) - min_val(i))) \div slider_width

\* Slider.handle_event of slider i in state s, on event e with the mouse at `mouse`:
\* the slider afterwards and the value returned
handle_event(i, s, e, mouse) ==
    IF e.type = "MOUSEBUTTONDOWN"
    THEN [slider |-> IF e.button = 1 /\ OnHandle(i, s, mouse)
                     THEN [s EXCEPT !.dragging = TRUE] ELSE s,
          ret |-> FALSE]
    ELSE IF e.type = "MOUSEBUTTONUP"
    THEN [slider |-> IF e.button = 1 THEN [s EXCEPT !.dragging = FALSE] ELSE s,
          ret |-> FALSE]
    ELSE IF e.type = "MOUSEMOTION" /\ s.dragging
    THEN LET mouse_x == ClampMouseX(mouse[1])
         IN  [slider |-> [s EXCEPT !.handle_x = mouse_x * SliderStep(i),
                                   !.value = ValueAt(i, mouse_x)],
              ret |-> TRUE]
    ELSE [slider |-> s, ret |-> FALSE]

\* lines 377-383: the dict d with every entry set from its slider
SyncParams(d, sl) ==
    [name \in DOMAIN d |->
        LET i == CHOOSE k \in 1..NumSliders : ParamNames[k] = name IN sl[i].value]

\* lines 357-360: every slider's value set to the i-th value of the dict d, and its
\* handle moved there; dragging is left as it is
ResetSliders(sl, d) ==
    [i \in 1..NumSliders |->
        [sl[i] EXCEPT !.value = d[ParamNames[i]],
                      !.handle_x = HandleXOf(i, d[ParamNames[i]])]]

---------------------------------------------------------------------------
(* Boid.  A boid is a record position / velocity / acceleration / neighbors.      *)
(* `boids` only ever grows at its end or is replaced by the empty list, so a      *)
(* boid's index in the list identifies the object for as long as it is reachable; *)
(* neighbors is the list of the indices of the objects Boid.flock appended.       *)

\* Boid.__init__(x, y) with random.uniform drawing the angle whose (cos, sin) is
\* `heading` (in 1/NQ); size is never changed and is left out
Boid(x, y, heading) ==
    [position     |-> <<x * Q, y * Q>>,
     velocity     |-> VScale(heading, Param("max_speed"), NQ),
     acceleration |-> VZero,
     neighbors    |-> <<>>]

\* Boid.normalize: a vector of length 1 (in 1/NQ), or the zero vector unchanged
normalize(vector) ==
    IF vector = VZero THEN vector
    ELSE LET w == Rescaled(vector) IN VScale(w, NQ, ISqrt(SqLen(w)))

\* Boid.limit: the vector cut to length max_value
limit(vector, max_value) ==
    IF NormMore(vector, max_value)
    THEN VScale(vector, max_value, ISqrtUp(SqLen(vector)))
    ELSE vector

\* the fixed max force 0.2 of lines 135, 144, 154
MaxForce == Q \div 5

\* the separation term of line 118, diff / (distance * distance + 1e-5), counted in
\* 1/SepQ per pixel.  With diff in 1/Q pixel it is
\*     diff * (Q * SepQ * EpsK) / (EpsK * |diff|^2 + 1),   EpsK = 1 / (1e-5 * Q^2).
\* Both the factor and the divisor are first divided by the power of ten s that
\* makes the product fit the integers; the divisor stays above 400 whenever s > 1,
\* so the quotient is right to 1 part in 400 or better.  |diff| is below 100 pixels
\* here (the largest separation_radius)
SepQ == 100 * 1000

EpsK == (100 * 1000) \div (Q * Q)

SeparationTerm(diff) ==
    LET m   == Max2(Abs(diff[1]), Abs(diff[2]))
        s   == IF m <= 20 THEN 1 ELSE IF m <= 200 THEN 10 ELSE IF m <= 2000 THEN 100
               ELSE 1000
        den == (EpsK * SqLen(diff) + 1) \div s
    IN  VScale(diff, (Q * SepQ * EpsK) \div s, den)

\* the locals of Boid.flock before its loop (lines 97-104)
FlockStart ==
    [neighbors |-> <<>>, separation |-> VZero, alignment |-> VZero, cohesion |-> VZero,
     total_separation |-> 0, total_alignment |-> 0, total_cohesion |-> 0]

\* line 107 left out: the boid meets itself in the scan
IsSelf_Never(i, j) == FALSE

\* line 107, `other is self`, for self = bs[i] and other = bs[j]
IsSelf(i, j) == j = i

\* the loop body with the separation test beside the perception test instead of
\* inside it: separation evaluated independently of perception
FlockVisit_SeparationApart(i, bs, j, acc) ==
    IF IsSelf(i, j) THEN acc
    ELSE LET diff == VSub(bs[i].position, bs[j].position)
             seen == NormLess(diff, Param("perception_radius"))
             near == NormLess(diff, Param("separation_radius"))
         IN  [neighbors        |-> IF seen THEN Append(acc.neighbors, j) ELSE acc.neighbors,
              separation       |-> IF near THEN VAdd(acc.separation, SeparationTerm(diff))
                                   ELSE acc.separation,
              total_separation |-> acc.total_separation + (IF near THEN 1 ELSE 0),
              alignment        |-> IF seen THEN VAdd(acc.alignment, bs[j].velocity)
                                   ELSE acc.alignment,
              total_alignment  |-> acc.total_alignment + (IF seen THEN 1 ELSE 0),
              cohesion         |-> IF seen THEN VAdd(acc.cohesion, bs[j].position)
                                   ELSE acc.cohesion,
              total_cohesion   |-> acc.total_cohesion + (IF seen THEN 1 ELSE 0)]

\* one pass of the loop body of Boid.flock (lines 107-128) for self = bs[i], other = bs[j]
FlockVisit(i, bs, j, acc) ==
    IF IsSelf(i, j) THEN acc
    ELSE LET diff == VSub(bs[i].position, bs[j].position)
         IN  IF NormLess(diff, Param("perception_radius"))
             THEN LET near == NormLess(diff, Param("separation_radius"))
                  IN  [neighbors        |-> Append(acc.neighbors, j),
                       separation       |-> IF near
                                            THEN VAdd(acc.separation, SeparationTerm(diff))
                                            ELSE acc.separation,
                       total_separation |-> acc.total_separation + (IF near THEN 1 ELSE 0),
                       alignment        |-> VAdd(acc.alignment, bs[j].velocity),
                       total_alignment  |-> acc.total_alignment + 1,
                       cohesion         |-> VAdd(acc.cohesion, bs[j].position),
                       total_cohesion   |-> acc.total_cohesion + 1]
             ELSE acc

\* the loop `for other in boids` of Boid.flock, from position j on
RECURSIVE FlockScan(_, _, _, _)
FlockScan(i, bs, j, acc) ==
    IF j > Len(bs) THEN acc ELSE FlockScan(i, bs, j + 1, FlockVisit(i, bs, j, acc))

\* a steering force: the desired direction at max_speed, less the velocity, cut to
\* the max force and weighted (lines 133-136, 142-145, 152-155)
Steer(desired, velocity, weight) ==
    VScale(limit(VSub(VScale(normalize(desired), Param("max_speed"), NQ), velocity),
                 MaxForce),
           weight, Q)

\* lines 130-137
SeparationForce(b, acc) ==
    IF acc.total_separation > 0
    THEN Steer(<<RDiv(acc.separation[1], acc.total_separation),
                 RDiv(acc.separation[2], acc.total_separation)>>,
               b.velocity, Param("separation_weight"))
    ELSE VZero

\* lines 139-146
AlignmentForce(b, acc) ==
    IF acc.total_alignment > 0
    THEN Steer(<<RDiv(acc.alignment[1], acc.total_alignment),
                 RDiv(acc.alignment[2], acc.total_alignment)>>,
               b.velocity, Param("alignment_weight"))
    ELSE VZero

\* lines 148-156
CohesionForce(b, acc) ==
    IF acc.total_cohesion > 0
    THEN Steer(VSub(<<RDiv(acc.cohesion[1], acc.total_cohesion),
                      RDiv(acc.cohesion[2], acc.total_cohesion)>>, b.position),
               b.velocity, Param("cohesion_weight"))
    ELSE VZero

\* the locals of bs[i].flock(bs) after its loop
FlockLocals(i, bs) == FlockScan(i, bs, 1, FlockStart)

\* bs[i] after bs[i].flock(bs): its neighbors rebuilt, the three forces applied
\* (apply_force adds to the acceleration)
flock(i, bs) ==
    LET acc == FlockLocals(i, bs)
        b   == bs[i]
    IN  [b EXCEPT !.neighbors = acc.neighbors,
                  !.acceleration = VAdd(VAdd(VAdd(b.acceleration, SeparationForce(b, acc)),
                                             AlignmentForce(b, acc)),
                                        CohesionForce(b, acc))]

\* Boid.update up to the call of handle_boundaries (lines 67-75)
update(b) ==
    LET v0 == VAdd(b.velocity, b.acceleration)
        v1 == IF NormMore(v0, Param("max_speed"))
              THEN VScale(v0, Param("max_speed"), ISqrtUp(SqLen(v0)))
              ELSE v0
    IN  [b EXCEPT !.velocity = v1,
                  !.position = VAdd(b.position, v1),
                  !.acceleration = VZero]

margin == 50

\* handle_boundaries with WIDTH for HEIGHT in the last test
handle_boundaries_WidthForHeight(b) ==
    LET turn_factor == Param("edge_force")
        vx1 == IF b.position[1] < margin * Q THEN b.velocity[1] + turn_factor
               ELSE b.velocity[1]
        vx2 == IF b.position[1] > (WIDTH - margin) * Q THEN vx1 - turn_factor ELSE vx1
        vy1 == IF b.position[2] < margin * Q THEN b.velocity[2] + turn_factor
               ELSE b.velocity[2]
        vy2 == IF b.position[2] > (WIDTH - margin) * Q THEN vy1 - turn_factor ELSE vy1
    IN  [b EXCEPT !.velocity = <<vx2, vy2>>]

\* Boid.handle_boundaries (lines 84-94)
handle_boundaries(b) ==
    LET turn_factor == Param("edge_force")
        vx1 == IF b.position[1] < margin * Q THEN b.velocity[1] + turn_factor
               ELSE b.velocity[1]
        vx2 == IF b.position[1] > (WIDTH - margin) * Q THEN vx1 - turn_factor ELSE vx1
        vy1 == IF b.position[2] < margin * Q THEN b.velocity[2] + turn_factor
               ELSE b.velocity[2]
        vy2 == IF b.position[2] > (HEIGHT - margin) * Q THEN vy1 - turn_factor ELSE vy1
    IN  [b EXCEPT !.velocity = <<vx2, vy2>>]

---------------------------------------------------------------------------
(* The inputs: what pygame and random hand to the program. *)

Keys == {"K_SPACE", "K_v", "K_c", "K_r", "K_a"}

Buttons == {1, 3}

\* values of pygame.mouse.get_pos(): on the handles of the perception_radius and the
\* edge_force slider as built (both inside the slider panel), and outside the panel
\* in the bottom left and in the top right corner of the screen, where a click
\* builds a boid within the margin of two edges
MousePos == {<<50, 167>>, <<170, 407>>, <<6, 790>>, <<1190, 10>>}

\* the place of the mouse in an event whose handling never asks for it
NoMouse == <<0, 0>>

\* values of (random.randint(50, WIDTH - 50), random.randint(50, HEIGHT - 50))
RandPos == {<<600, 400>>, <<612, 416>>}

\* values of (cos(angle), sin(angle)) for angle = random.uniform(0, 2 * pi), in 1/NQ:
\* angle 0
Headings == {<<NQ, 0>>}

KeyEvent(k) == [type |-> "KEYDOWN", key |-> k, button |-> 0, mouse |-> NoMouse]

NoTotals == [total_separation |-> 0, total_alignment |-> 0, total_cohesion |-> 0]

---------------------------------------------------------------------------
(* main(): the state after lines 299-326. *)

Init ==
    /\ params = DefaultParams
    /\ main_params = DefaultParams
    /\ main_aliased = TRUE
    /\ sliders = [i \in 1..NumSliders |-> NewSlider(i, DefaultParams[ParamNames[i]])]
    /\ boids = <<>>
    /\ show_visuals = TRUE
    /\ pc = "events"
    /\ idx = 0
    /\ totals = NoTotals
    /\ flocked = {}
    /\ updated = {}
    /\ frame0 = <<>>
    /\ spawned = 0
    /\ nevents = 0
    /\ nframes = 0

\* line 366 with `and` for `or`: a click beside or below the panel builds nothing
OutsidePanel_And(x, y) == y > 500 /\ x > 350

\* line 366, `if y > 500 or x > 350`: the click is not on the slider area
OutsidePanel(x, y) == y > 500 \/ x > 350

\* is e a spawn event: key SPACE, or a left click with x > 350 or y > 500?
Spawns(e) ==
    \/ e.type = "KEYDOWN" /\ e.key = "K_SPACE"
    \/ e.type = "MOUSEBUTTONDOWN" /\ e.button = 1 /\ (e.mouse[2] > 500 \/ e.mouse[1] > 350)

\* is e the clear-all event? (key C)
Clears(e) == e.type = "KEYDOWN" /\ e.key = "K_c"

\* lines 330-367: main's variables after the if / elif chain on event e; rnd is what
\* random draws when a boid is built
Dispatch(e, rnd) ==
    LET s0 == [boids |-> boids, show_visuals |-> show_visuals,
               main_params |-> main_params, main_aliased |-> main_aliased,
               sliders |-> sliders]
    IN  IF e.type = "KEYDOWN" THEN
            IF e.key = "K_SPACE"
            THEN [s0 EXCEPT !.boids = Append(boids, Boid(rnd.pos[1], rnd.pos[2], rnd.heading))]
            ELSE IF e.key = "K_v" THEN [s0 EXCEPT !.show_visuals = ~show_visuals]
            ELSE IF e.key = "K_c" THEN [s0 EXCEPT !.boids = <<>>]
            ELSE IF e.key = "K_r"
            THEN [s0 EXCEPT !.main_params = ResetParams,
                            !.main_aliased = FALSE,
                            !.sliders = ResetSliders(sliders, ResetParams)]
            ELSE s0
        ELSE IF e.type = "MOUSEBUTTONDOWN" THEN
            IF e.button = 1 /\ OutsidePanel(e.mouse[1], e.mouse[2])
            THEN [s0 EXCEPT !.boids = Append(boids, Boid(e.mouse[1], e.mouse[2], rnd.heading))]
            ELSE s0
        ELSE s0

\* one pass of the body of `for event in pygame.event.get()` (lines 330-383)
HandleEvent(e, rnd) ==
    /\ pc = "events"
    /\ nevents < MaxEvents
    /\ Spawns(e) => Len(boids) < MaxBoids
    /\ LET d       == Dispatch(e, rnd)
           res     == [i \in 1..NumSliders |-> handle_event(i, d.sliders[i], e, e.mouse)]
           param_changed == \E i \in 1..NumSliders : res[i].ret
           sl      == [i \in 1..NumSliders |-> res[i].slider]
           local   == IF param_changed THEN SyncParams(d.main_params, sl)
                      ELSE d.main_params
       IN  /\ boids' = d.boids
           /\ show_visuals' = d.show_visuals
           /\ sliders' = sl
           /\ main_params' = local
           /\ main_aliased' = d.main_aliased
           \* the assignments of lines 377-383 reach the module-level dict only
           \* while main's local name is still bound to it
           /\ params' = IF d.main_aliased THEN local ELSE params
    /\ spawned' = IF Clears(e) THEN 0 ELSE IF Spawns(e) THEN spawned + 1 ELSE spawned
    /\ nevents' = nevents + 1
    /\ UNCHANGED <<pc, idx, totals, flocked, updated, frame0, nframes>>

Draws == [pos : RandPos, heading : Headings]

NoDraw == [pos |-> <<0, 0>>, heading |-> <<0, 0>>]

KeySpace == \E rnd \in Draws : HandleEvent(KeyEvent("K_SPACE"), rnd)

KeyV == HandleEvent(KeyEvent("K_v"), NoDraw)

KeyC == HandleEvent(KeyEvent("K_c"), NoDraw)

KeyR == HandleEvent(KeyEvent("K_r"), NoDraw)

KeyOther == HandleEvent(KeyEvent("K_a"), NoDraw)

MouseButtonDown ==
    \/ \E m \in MousePos, h \in Headings :
          HandleEvent([type |-> "MOUSEBUTTONDOWN", key |-> "", button |-> 1, mouse |-> m],
                      [pos |-> <<0, 0>>, heading |-> h])
    \/ HandleEvent([type |-> "MOUSEBUTTONDOWN", key |-> "", button |-> 3, mouse |-> NoMouse],
                   NoDraw)

MouseButtonUp ==
    \E b \in Buttons :
        HandleEvent([type |-> "MOUSEBUTTONUP", key |-> "", button |-> b, mouse |-> NoMouse],
                    NoDraw)

MouseMotion ==
    \E m \in MousePos :
        HandleEvent([type |-> "MOUSEMOTION", key |-> "", button |-> 0, mouse |-> m], NoDraw)

---------------------------------------------------------------------------
(* main(): the frame, lines 385-424. *)

\* lines 385-389: the event queue is drained, the loop over the boids begins
BeginFrame ==
    /\ pc = "events"
    /\ nframes < MaxFrames
    /\ pc' = "flock"
    /\ idx' = 1
    /\ flocked' = {}
    /\ updated' = {}
    /\ frame0' = boids
    /\ UNCHANGED <<params, main_params, main_aliased, sliders, boids, show_visuals,
                   totals, spawned, nevents, nframes>>

\* line 390: boid.flock(boids)
Flock ==
    /\ pc = "flock"
    /\ idx <= Len(boids)
    /\ boids' = [boids EXCEPT ![idx] = flock(idx, boids)]
    /\ totals' = LET acc == FlockLocals(idx, boids)
                 IN  [total_separation |-> acc.total_separation,
                      total_alignment  |-> acc.total_alignment,
                      total_cohesion   |-> acc.total_cohesion]
    /\ flocked' = flocked \cup {idx}
    /\ pc' = "update"
    /\ UNCHANGED <<params, main_params, main_aliased, sliders, show_visuals,
                   idx, updated, frame0, spawned, nevents, nframes>>

\* line 391: boid.update(), up to its last statement
Update ==
    /\ pc = "update"
    /\ boids' = [boids EXCEPT ![idx] = update(boids[idx])]
    /\ updated' = updated \cup {idx}
    /\ pc' = "boundaries"
    /\ UNCHANGED <<params, main_params, main_aliased, sliders, show_visuals,
                   idx, totals, flocked, frame0, spawned, nevents, nframes>>

\* line 78: the last statement of boid.update(), self.handle_boundaries()
Boundaries ==
    /\ pc = "boundaries"
    /\ boids' = [boids EXCEPT ![idx] = handle_boundaries(boids[idx])]
    /\ pc' = "draw"
    /\ UNCHANGED <<params, main_params, main_aliased, sliders, show_visuals,
                   idx, totals, flocked, updated, frame0, spawned, nevents, nframes>>

\* lines 392-405: the boid is drawn (boid.draw, or the plain arrow); both branches
\* only read, and the loop goes on to the next boid
Draw ==
    /\ pc = "draw"
    /\ pc' = "flock"
    /\ idx' = idx + 1
    /\ UNCHANGED <<params, main_params, main_aliased, sliders, boids, show_visuals,
                   totals, flocked, updated, frame0, spawned, nevents, nframes>>

\* lines 407-424: sliders and texts are drawn and the next pass of the main loop
\* begins.  Leaving the loop (QUIT, ESC) is not modelled
EndFrame ==
    /\ pc = "flock"
    /\ idx > Len(boids)
    /\ pc' = "events"
    /\ idx' = 0
    /\ totals' = NoTotals
    /\ flocked' = {}
    /\ updated' = {}
    /\ frame0' = <<>>
    /\ nframes' = nframes + 1
    /\ UNCHANGED <<params, main_params, main_aliased, sliders, boids, show_visuals,
                   spawned, nevents>>

\* the whole loop of lines 389-391 on the list bs, from position i on: the list
\* when the loop ends (drawing changes nothing)
RECURSIVE FrameFrom(_, _)
FrameFrom(bs, i) ==
    IF i > Len(bs) THEN bs
    ELSE FrameFrom([bs EXCEPT ![i] = handle_boundaries(update(flock(i, bs)))], i + 1)

RunFrame(bs) == FrameFrom(bs, 1)

Next ==
    \/ KeySpace
    \/ KeyV
    \/ KeyC
    \/ KeyR
    \/ KeyOther
    \/ MouseButtonDown
    \/ MouseButtonUp
    \/ MouseMotion
    \/ BeginFrame
    \/ Flock
    \/ Update
    \/ Boundaries
    \/ Draw
    \/ EndFrame

Spec == Init /\ [][Next]_vars

---------------------------------------------------------------------------
(* The properties. *)

AllBoids == 1..Len(boids)

\* is q at a distance below r (in 1/Q pixel) from p?
Closer(p, q, r) ==
    LET dx == p[1] - q[1]
        dy == p[2] - q[2]
    IN  /\ Abs(dx) < r
        /\ Abs(dy) < r
        /\ dx * dx + dy * dy < r * r

perception_radius == (params.perception_radius * Q) \div PU

separation_radius == (params.separation_radius * Q) \div PU

max_speed == (params.max_speed * Q) \div PU

edge_force == (params.edge_force * Q) \div PU

\* the elements of a list
Elems(seq) == {seq[k] : k \in 1..Len(seq)}

\* C1: when a boid's update() has returned (the boid is about to be drawn), the
\* length of its velocity is at most the current max_speed.
C1_SpeedBound ==
    pc = "draw" =>
        LET v == boids[idx].velocity
        IN  v[1] * v[1] + v[2] * v[2] <= max_speed * max_speed

\* C2, first half: no boid is integrated in a frame before the flock() of every boid
\* has run in it.
C2_NoEarlyIntegration == updated # {} => flocked = AllBoids

\* C2, first half: the force flock() hands a boid is the force computed from the
\* positions and velocities all boids had when the frame began.
C2_ForcesFromFrameStart ==
    pc = "update" => boids[idx].acceleration = flock(idx, frame0).acceleration

\* the list bs in the order p: position i holds bs[p[i]]
Reordered(bs, p) == [i \in 1..Len(bs) |-> bs[p[i]]]

\* C2, second half: one frame run on the boids in any other list order leaves every
\* boid with the position and velocity it gets in the list order.
C2_OrderIndependent ==
    pc = "events" =>
        \A p \in Permutations(AllBoids) :
            LET there == RunFrame(Reordered(boids, p))
                here  == RunFrame(boids)
            IN  \A i \in AllBoids :
                    /\ there[i].position = here[p[i]].position
                    /\ there[i].velocity = here[p[i]].velocity

\* C2: the per-frame update is two-phase, and so independent of the list order.
C2_TwoPhase ==
    /\ C2_NoEarlyIntegration
    /\ C2_ForcesFromFrameStart
    /\ C2_OrderIndependent

\* C3: the handling of key R leaves the parameter set the simulation reads (the
\* module-level dict, which no frame changes) equal to the documented defaults.
C3_ResetRestoresDefaults == [][KeyR => params' = DefaultParams]_vars

\* C4: when a frame's update pass begins, every parameter the simulation reads has
\* the value its slider holds.
C4_ParamsFollowSliders ==
    (pc = "flock" /\ idx = 1) =>
        \A i \in 1..NumSliders : params[ParamNames[i]] = sliders[i].value

\* C5: whenever a boid is drawn, the flock() and update() of every boid of the list
\* have run in this frame.
C5_DrawAfterStep == pc = "draw" => (flocked = AllBoids /\ updated = AllBoids)

\* C6: the number of boids is the number of spawn events (key SPACE, left click with
\* x > 350 or y > 500) handled since the last clear-all event (key C) or the start.
C6_CountIsSpawnsSinceClear == Len(boids) = spawned

\* two spawn events have been handled since the last clear and a frame has run
C6_Witness == spawned = 2 /\ Len(boids) = 2 /\ nframes > 0 /\ pc = "events"

\* C7: when flock() of a boid has returned, its neighbor list does not hold the boid
\* itself, holds no boid twice, and holds exactly the other boids of the list at a
\* distance below perception_radius (whatever the list held before the call).
C7_NeighborsExact ==
    pc = "update" =>
        LET me == boids[idx]
            nb == me.neighbors
        IN  /\ idx \notin Elems(nb)
            /\ Cardinality(Elems(nb)) = Len(nb)
            /\ Elems(nb) = {j \in AllBoids \ {idx} :
                              Closer(me.position, boids[j].position, perception_radius)}

\* flock() has just rebuilt a list that was not empty after the previous frame and
\* is different now
C7_Witness ==
    /\ pc = "update"
    /\ frame0[idx].neighbors # <<>>
    /\ boids[idx].neighbors # frame0[idx].neighbors

\* C8: when flock() of a boid has returned, its separation counter is the number of
\* other boids at a distance below both separation_radius and perception_radius, its
\* alignment and cohesion counters are the size of its neighbor list, and the first
\* is at most the others.
C8_SeparationWithinPerception ==
    pc = "update" =>
        LET me == boids[idx]
        IN  /\ totals.total_separation =
                  Cardinality({j \in AllBoids \ {idx} :
                      /\ Closer(me.position, boids[j].position, separation_radius)
                      /\ Closer(me.position, boids[j].position, perception_radius)})
            /\ totals.total_alignment = Len(me.neighbors)
            /\ totals.total_cohesion = Len(me.neighbors)
            /\ totals.total_separation <= totals.total_alignment

\* flock() has returned with separation_radius > perception_radius and another boid
\* within the separation radius but not within the perception radius
C8_Witness ==
    /\ pc = "update"
    /\ params.separation_radius > params.perception_radius
    /\ \E j \in AllBoids \ {idx} :
          /\ Closer(boids[idx].position, boids[j].position, separation_radius)
          /\ ~Closer(boids[idx].position, boids[j].position, perception_radius)

\* every parameter the simulation reads, and every slider value, is within the
\* range of param_ranges
C9_InRange ==
    \A i \in 1..NumSliders :
        /\ params[ParamNames[i]] >= param_ranges[ParamNames[i]][1]
        /\ params[ParamNames[i]] <= param_ranges[ParamNames[i]][2]
        /\ sliders[i].value >= param_ranges[ParamNames[i]][1]
        /\ sliders[i].value <= param_ranges[ParamNames[i]][2]

\* a slider starts being dragged only by a left button press on its handle
C9_DragStartsOnHandle ==
    \A i \in 1..NumSliders :
        (~sliders[i].dragging /\ sliders'[i].dragging) =>
            \E m \in MousePos :
                /\ OnHandle(i, sliders[i], m)
                /\ \E h \in Headings :
                      HandleEvent([type |-> "MOUSEBUTTONDOWN", key |-> "", button |-> 1,
                                   mouse |-> m], [pos |-> <<0, 0>>, heading |-> h])

\* a slider's value changes only in the handling of a mouse motion, while it is
\* being dragged
C9_ChangeOnlyByDrag ==
    \A i \in 1..NumSliders :
        sliders'[i].value # sliders[i].value => (MouseMotion /\ sliders[i].dragging)

\* a slider's value changes only in the handling of a mouse motion while it is being
\* dragged, or in the handling of key R, which sets it to its default
C9_ChangeOnlyByDragOrReset ==
    \A i \in 1..NumSliders :
        sliders'[i].value # sliders[i].value =>
            \/ MouseMotion /\ sliders[i].dragging
            \/ KeyR /\ sliders'[i].value = DefaultParams[ParamNames[i]]

\* C9 as stated: every parameter stays within its range, and a slider's value
\* changes only on mouse motion while it is being dragged.
C9_Original ==
    /\ []C9_InRange
    /\ [][C9_DragStartsOnHandle /\ C9_ChangeOnlyByDrag]_vars

\* C9 as amended: every parameter stays within its range, and a slider's value
\* changes only on mouse motion while it is being dragged or on a reset-parameters
\* event.
C9_RangesAndDrag ==
    /\ []C9_InRange
    /\ [][C9_DragStartsOnHandle /\ C9_ChangeOnlyByDragOrReset]_vars

\* the edge_force slider has been dragged with the mouse right of its end: its value
\* and the parameter the simulation reads are the end of the range
C9_Witness ==
    /\ sliders[6].value = param_ranges.edge_force[2]
    /\ params.edge_force = param_ranges.edge_force[2]
    /\ sliders[6].dragging

\* C10: one pass of handle_boundaries adds edge_force to velocity.x if position.x < 50,
\* subtracts it if position.x > 1150, and leaves velocity.x alone otherwise; the same
\* for y against 50 and 750; nothing else of the boid, and no other boid, changes.
C10_BoundaryNudge ==
    [][pc = "boundaries" =>
          LET b  == boids[idx]
              b2 == boids'[idx]
              nx == IF b.position[1] < 50 * Q THEN edge_force
                    ELSE IF b.position[1] > 1150 * Q THEN -edge_force ELSE 0
              ny == IF b.position[2] < 50 * Q THEN edge_force
                    ELSE IF b.position[2] > 750 * Q THEN -edge_force ELSE 0
          IN  /\ b2.velocity = <<b.velocity[1] + nx, b.velocity[2] + ny>>
              /\ b2.position = b.position
              /\ b2.acceleration = b.acceleration
              /\ b2.neighbors = b.neighbors
              /\ Len(boids') = Len(boids)
              /\ \A j \in AllBoids \ {idx} : boids'[j] = boids[j]]_vars

\* handle_boundaries has run on a boid at x = 10 with edge_force 7.25 and max_speed
\* 4.0: its velocity.x is 4.0 + 7.25
C10_Witness ==
    /\ pc = "draw"
    /\ params.edge_force = DefaultParams.edge_force
    /\ boids[idx].position[1] = 10 * Q
    /\ boids[idx].velocity[1] = 4 * Q + (725 * Q) \div 100

=============================================================================
